---------------------------- MODULE Spec2Model ----------------------------
(***************************************************************************)
(* Model of the meinBT XML extraction engine (src/src/mbtxml.py):          *)
(* the date normaliser _get_datetime, the element lookup of MBTXML, the    *)
(* record builders of MBTStammdaten and MBTDrucksachen and the generator   *)
(* find_mdb.                                                               *)
(*                                                                         *)
(* Text is a sequence of one-character strings.  Python values are tagged  *)
(* records: [tag |-> "str"], "datetime", "dict", "list", "None", "Tag"     *)
(* (a BeautifulSoup element) and "raise" (an exception leaving the call).  *)
(***************************************************************************)
EXTENDS Integers, Sequences, FiniteSets, TLC

VARIABLES soup, resultset, pos, status, yielded, call, ret

vars == <<soup, resultset, pos, status, yielded, call, ret>>

----------------------------------------------------------------------------
(* Bounds of the model *)

MaxWords == 4
MaxTextLen == 4
MaxList == 2
MaxMdb == 2

----------------------------------------------------------------------------
(* Python values *)

None == [tag |-> "None"]

Str(s) == [tag |-> "str", val |-> s]

Raise(e) == [tag |-> "raise", exc |-> e]

Dict(d) == [tag |-> "dict", val |-> d]

List(l) == [tag |-> "list", val |-> l]

IsRaise(v) == v.tag = "raise"

\* a slice that leaves out the reversal [::-1]
SameOrder(s) == s

Reverse(s) == [i \in 1..Len(s) |-> s[Len(s) + 1 - i]]

\* the exception leaving a sequence of evaluations done in order: the first
FirstRaise(vs) ==
    LET i == CHOOSE i \in 1..Len(vs) :
                 IsRaise(vs[i]) /\ \A j \in 1..(i - 1) : ~IsRaise(vs[j])
    IN  vs[i]

AnyRaise(vs) == \E i \in 1..Len(vs) : IsRaise(vs[i])

----------------------------------------------------------------------------
(* str.split, int() and datetime.datetime() as _get_datetime uses them *)

Digits == <<"0", "1", "2", "3", "4", "5", "6", "7", "8", "9">>

IsDigit(c) == \E i \in 1..10 : Digits[i] = c

DigitVal(c) == (CHOOSE i \in 1..10 : Digits[i] = c) - 1

\* the characters int() skips at both ends of its argument. Of these, the
\* ones a string of this module can hold (code points up to 255) are listed:
\* space, tab, line feed, carriage return, form feed, vertical tab (11),
\* next line (133) and no-break space (160). int() also skips the spaces
\* 5760, 8192..8202, 8232, 8233, 8239, 8287 and 12288, and it does not skip
\* the separators 28..31 although str.isspace() holds of them.
IsSpace(c) == c \in {" ", "\t", "\n", "\r", "\f", "", "", " "}

\* the place of the first sep in s, 0 when there is none
IndexOfIn(hits) ==
    IF hits = {} THEN 0 ELSE CHOOSE i \in hits : \A j \in hits : i <= j

IndexOf(s, sep) == IndexOfIn({ i \in 1..Len(s) : s[i] = sep })

\* str.split(sep) with a one-character separator
RECURSIVE SplitAt(_, _, _)
SplitAt(s, sep, i) ==
    IF i = 0 THEN <<s>>
    ELSE <<SubSeq(s, 1, i - 1)>>
         \o SplitAt(SubSeq(s, i + 1, Len(s)), sep,
                    IndexOf(SubSeq(s, i + 1, Len(s)), sep))

split(s, sep) == SplitAt(s, sep, IndexOf(s, sep))

\* str.strip()
RECURSIVE strip(_)
strip(s) ==
    IF s = <<>> THEN s
    ELSE IF IsSpace(s[1]) THEN strip(Tail(s))
    ELSE IF IsSpace(s[Len(s)]) THEN strip(SubSeq(s, 1, Len(s) - 1))
    ELSE s

RECURSIVE DecimalValue(_)
DecimalValue(ds) ==
    IF ds = <<>> THEN 0
    ELSE 10 * DecimalValue(SubSeq(ds, 1, Len(ds) - 1)) + DigitVal(ds[Len(ds)])

\* int() of a stripped word: an optional sign, decimal digits with single
\* underscores between digits; anything else is a ValueError
IntOfStripped(t) ==
    LET signed == t # <<>> /\ t[1] \in {"+", "-"}
        body == IF signed THEN Tail(t) ELSE t
        ok == /\ body # <<>>
              /\ \A i \in 1..Len(body) : IsDigit(body[i]) \/ body[i] = "_"
              /\ IsDigit(body[1]) /\ IsDigit(body[Len(body)])
              /\ \A i \in 1..(Len(body) - 1) : ~(body[i] = "_" /\ body[i + 1] = "_")
    IN  IF ~ok THEN Raise("ValueError")
        ELSE IF signed /\ t[1] = "-"
        THEN [tag |-> "int", val |-> 0 - DecimalValue(SelectSeq(body, IsDigit))]
        ELSE [tag |-> "int", val |-> DecimalValue(SelectSeq(body, IsDigit))]

\* int(word)
int(word) == IntOfStripped(strip(word))

IsLeap(y) == y % 4 = 0 /\ (y % 100 # 0 \/ y % 400 = 0)

DaysInMonth(y, m) ==
    IF m = 2 THEN (IF IsLeap(y) THEN 29 ELSE 28)
    ELSE IF m \in {4, 6, 9, 11} THEN 30 ELSE 31

\* datetime.datetime(*args) for a list of ints: year, month, day[, hour[,
\* minute[, second[, microsecond[, tzinfo]]]]]; the ints are within the C int
\* range (the texts of the model are short), so no OverflowError arises
datetime(args) ==
    LET n == Len(args)
        arg(i) == IF i <= n THEN args[i] ELSE 0
        inRange == /\ arg(1) >= 1 /\ arg(1) <= 9999
                   /\ arg(2) >= 1 /\ arg(2) <= 12
                   /\ arg(3) >= 1 /\ arg(3) <= DaysInMonth(arg(1), arg(2))
                   /\ arg(4) >= 0 /\ arg(4) <= 23
                   /\ arg(5) >= 0 /\ arg(5) <= 59
                   /\ arg(6) >= 0 /\ arg(6) <= 59
                   /\ arg(7) >= 0 /\ arg(7) <= 999999
    IN  IF n > 8 THEN Raise("TypeError")
        ELSE IF n < 3 THEN Raise("TypeError")
        ELSE IF ~inRange THEN Raise("ValueError")
        ELSE IF n = 8 THEN Raise("TypeError")
        ELSE [tag |-> "datetime", year |-> arg(1), month |-> arg(2),
              day |-> arg(3), hour |-> arg(4), minute |-> arg(5),
              second |-> arg(6), microsecond |-> arg(7)]

IntsOfWords(words) == [i \in 1..Len(words) |-> int(words[i])]

\* [int(word) for word in words if word]
IntsOf(words) == IntsOfWords(SelectSeq(words, LAMBDA w : w # <<>>))

\* the rest of _get_datetime once the words are converted: the first failed
\* conversion leaves the function; no word at all gives the text back
DateOfInts(date, ints) ==
    IF AnyRaise(ints) THEN FirstRaise(ints)
    ELSE IF Len(ints) # 0
    THEN datetime(Reverse([i \in 1..Len(ints) |-> ints[i].val]))
    ELSE Str(date)

\* _get_datetime(date)
_get_datetime(date) == DateOfInts(date, IntsOf(split(date, ".")))

----------------------------------------------------------------------------
(* The parsed tree: BeautifulSoup elements and their lookup *)

Tag(n, t, ch) == [tag |-> "Tag", name |-> n, text |-> t, children |-> ch]

Leaf(n, t) == Tag(n, t, <<>>)

Node(n, ch) == Tag(n, <<>>, ch)

\* truth value of an element lookup's result: a Tag is true, None is false
Truthy(v) == v.tag # "None"

RECURSIVE ConcatAll(_)
ConcatAll(ss) == IF ss = <<>> THEN <<>> ELSE ss[1] \o ConcatAll(Tail(ss))

\* Tag.get_text(): the text below the element, in document order
RECURSIVE get_text(_)
get_text(el) ==
    el.text \o ConcatAll([i \in 1..Len(el.children) |-> get_text(el.children[i])])

\* the elements of that name among the children of el from the i-th on and
\* their descendants, in document order
RECURSIVE FindAllFrom(_, _, _)
FindAllFrom(el, i, name) ==
    IF i > Len(el.children) THEN <<>>
    ELSE (IF el.children[i].name = name THEN <<el.children[i]>> ELSE <<>>)
         \o FindAllFrom(el.children[i], 1, name)
         \o FindAllFrom(el, i + 1, name)

\* Tag.find_all(name=name): every descendant of that name, in document order
find_all(root, name) == FindAllFrom(root, 1, name)

\* the first element of that name among the children of el from the i-th on
\* and their descendants, in document order, or None
RECURSIVE FindFrom(_, _, _)
FindFrom(el, i, name) ==
    IF i > Len(el.children) THEN None
    ELSE IF el.children[i].name = name THEN el.children[i]
    ELSE LET below == FindFrom(el.children[i], 1, name)
         IN  IF Truthy(below) THEN below ELSE FindFrom(el, i + 1, name)

\* Tag.find(name=name): the first descendant of that name, or None
find(root, name) == FindFrom(root, 1, name)

\* the soup attribute of a parser whose __init__ never assigned it
NoSoup == [tag |-> "unset"]

\* hasattr(self, "soup")
HasSoup(self) == self.soup # NoSoup

\* MBTXML._find_element(name, root=None): without a root the lookup reads
\* self.soup, an AttributeError when the attribute was never set
_find_element(self, name, root) ==
    IF Truthy(root) THEN find(root, name)
    ELSE IF HasSoup(self) THEN find(self.soup, name)
    ELSE Raise("AttributeError")

\* MBTXML._find_all_elements(name, root=None)
_find_all_elements(self, name, root) ==
    IF Truthy(root) THEN find_all(root, name)
    ELSE IF HasSoup(self) THEN find_all(self.soup, name)
    ELSE Raise("AttributeError")

\* a lookup without root on a parser without tree: it raises instead of
\* returning what it found
NoTree(self, root) == ~Truthy(root) /\ ~HasSoup(self)

\* a text read that takes an absent element for an empty one
TextOrBlank(element) ==
    IF IsRaise(element) THEN element
    ELSE IF Truthy(element) THEN Str(get_text(element))
    ELSE Str(<<>>)

\* element.get_text() on a lookup's result: None has no get_text, and an
\* exception of the lookup leaves before get_text is reached
GetText(element) ==
    IF IsRaise(element) THEN element
    ELSE IF Truthy(element) THEN Str(get_text(element))
    ELSE Raise("AttributeError")

\* self._find_element(name, root=root).get_text()
Text(self, name, root) == GetText(_find_element(self, name, root))

\* _get_datetime(text) of an extracted text
DateOf(t) == IF IsRaise(t) THEN t ELSE _get_datetime(t.val)

\* _get_datetime(self._find_element(name, root=root).get_text())
Date(self, name, root) == DateOf(Text(self, name, root))

StrList(parts) == List([i \in 1..Len(parts) |-> Str(parts[i])])

\* text.split(",") of an extracted text
SplitOf(t) == IF IsRaise(t) THEN t ELSE StrList(split(t.val, ","))

\* self._find_element(name, root=root).get_text().split(",")
TextList(self, name, root) == SplitOf(Text(self, name, root))

\* a dict display {key: value, ...}: the values are evaluated in order and
\* the first exception leaves the builder
DictOf(items) ==
    IF \E i \in 1..Len(items) : IsRaise(items[i][2])
    THEN FirstRaise([i \in 1..Len(items) |-> items[i][2]])
    ELSE Dict([k \in { items[i][1] : i \in 1..Len(items) } |->
                 items[CHOOSE i \in 1..Len(items) : items[i][1] = k][2]])

\* a list comprehension [build(element) for element in elements if element]:
\* the built values in order, or the first exception
\* a comprehension that leaves out the entries whose builder failed
Surviving(built) == List(SelectSeq(built, LAMBDA v : ~IsRaise(v)))

Comprehension(built) ==
    IF AnyRaise(built) THEN FirstRaise(built) ELSE List(built)

----------------------------------------------------------------------------
(* MBTStammdaten: the builders of the member schema *)

\* find_version
find_version(self) == Text(self, "version", None)

\* _find_id
_find_id(self, root) == Text(self, "id", root)

\* _find_name
_find_name(self, root) ==
    DictOf(<< <<"nachname", Text(self, "nachname", root)>>,
              <<"vorname", Text(self, "vorname", root)>>,
              <<"ortszusatz", Text(self, "ortszusatz", root)>>,
              <<"adel", Text(self, "adel", root)>>,
              <<"praefix", Text(self, "praefix", root)>>,
              <<"anrede_titel", Text(self, "anrede_titel", root)>>,
              <<"akad_titel", Text(self, "akad_titel", root)>>,
              <<"historie_von", Date(self, "historie_von", root)>>,
              <<"historie_bis", Date(self, "historie_bis", root)>> >>)

\* the names built last element first
NamenBackwards(self, elements) ==
    Comprehension(Reverse([i \in 1..Len(elements) |-> _find_name(self, elements[i])]))

NamenOf(self, elements) ==
    Comprehension([i \in 1..Len(elements) |-> _find_name(self, elements[i])])

NamenIn(self, element) ==
    IF IsRaise(element) THEN element
    ELSE IF Truthy(element)
    THEN NamenOf(self, _find_all_elements(self, "name", element))
    ELSE List(<<>>)

\* _find_namen
_find_namen(self, root) == NamenIn(self, _find_element(self, "namen", root))

BiografischeAngabenIn(self, element) ==
    IF IsRaise(element) THEN element
    ELSE IF Truthy(element)
    THEN DictOf(
           << <<"geburtsdatum", Date(self, "geburtsdatum", element)>>,
              <<"geburtsort", Text(self, "geburtsort", element)>>,
              <<"geburtsland", Text(self, "geburtsland", element)>>,
              <<"sterbedatum", Date(self, "sterbedatum", element)>>,
              <<"geschlecht", Text(self, "geschlecht", element)>>,
              <<"familienstand", TextList(self, "familienstand", element)>>,
              <<"religion", Text(self, "religion", element)>>,
              <<"beruf", TextList(self, "beruf", element)>>,
              <<"partei_kurz", Text(self, "partei_kurz", element)>>,
              <<"vita_kurz", Text(self, "vita_kurz", element)>>,
              <<"veroeffentlichungspflichtiges",
                Text(self, "veroeffentlichungspflichtiges", element)>> >>)
    ELSE Dict(<<>>)

\* _find_biografische_angaben
_find_biografische_angaben(self, root) ==
    BiografischeAngabenIn(self, _find_element(self, "biografische_angaben", root))

\* _find_institution
_find_institution(self, root) ==
    DictOf(<< <<"insart_lang", Text(self, "insart_lang", root)>>,
              <<"ins_lang", Text(self, "ins_lang", root)>>,
              <<"mdbins_von", Date(self, "mdbins_von", root)>>,
              <<"mdbins_bis", Date(self, "mdbins_bis", root)>>,
              <<"fkt_lang", Text(self, "fkt_lang", root)>>,
              <<"fktins_von", Date(self, "fktins_von", root)>>,
              <<"fktins_bis", Date(self, "fktins_bis", root)>> >>)

InstitutionenOf(self, elements) ==
    Comprehension([i \in 1..Len(elements) |->
                     _find_institution(self, elements[i])])

InstitutionenIn(self, element) ==
    IF IsRaise(element) THEN element
    ELSE IF element.tag # "None"
    THEN InstitutionenOf(self, _find_all_elements(self, "institution", element))
    ELSE List(<<>>)

\* _find_institutionen
_find_institutionen(self, root) ==
    InstitutionenIn(self, _find_element(self, "institutionen", root))

\* _find_wahlperiode
_find_wahlperiode(self, root) ==
    DictOf(<< <<"wp", Text(self, "wp", root)>>,
              <<"mdbwp_von", Date(self, "mdbwp_von", root)>>,
              <<"mdbwp_bis", Date(self, "mdbwp_bis", root)>>,
              <<"wkr_nummer", Text(self, "wkr_nummer", root)>>,
              <<"wkr_name", Text(self, "wkr_name", root)>>,
              <<"wkr_land", Text(self, "wkr_land", root)>>,
              <<"liste", Text(self, "liste", root)>>,
              <<"mandatsart", Text(self, "mandatsart", root)>>,
              <<"institutionen", _find_institutionen(self, root)>> >>)

WahlperiodenOf(self, elements) ==
    Comprehension([i \in 1..Len(elements) |->
                     _find_wahlperiode(self, elements[i])])

\* the terms looked up without the test of the container
WahlperiodenAnywhere(self, element) ==
    WahlperiodenOf(self, _find_all_elements(self, "wahlperiode", element))

WahlperiodenIn(self, element) ==
    IF IsRaise(element) THEN element
    ELSE IF Truthy(element)
    THEN WahlperiodenOf(self, _find_all_elements(self, "wahlperiode", element))
    ELSE List(<<>>)

\* _find_wahlperioden
_find_wahlperioden(self, root) ==
    WahlperiodenIn(self, _find_element(self, "wahlperioden", root))

\* the record find_mdb builds of one mdb element
mdb(self, element) ==
    IF Truthy(element)
    THEN DictOf(<< <<"id", Text(self, "id", element)>>,
                   <<"namen", _find_namen(self, element)>>,
                   <<"biografische_angaben",
                     _find_biografische_angaben(self, element)>>,
                   <<"wahlperioden", _find_wahlperioden(self, element)>> >>)
    ELSE Dict(<<>>)

----------------------------------------------------------------------------
(* MBTDrucksachen: the builders of the printed-matter schema *)

\* an optional text read like a required one
TextOfRequired(element) == GetText(element)

TextOrEmpty(element) ==
    IF IsRaise(element) THEN element
    ELSE IF Truthy(element) THEN GetText(element)
    ELSE Str(<<>>)

\* _find_drs_typ
_find_drs_typ(self, root) == TextOrEmpty(_find_element(self, "drs_typ", root))

\* _find_titel
_find_titel(self, root) == TextOrEmpty(_find_element(self, "titel", root))

Texts(elements) == List([i \in 1..Len(elements) |-> GetText(elements[i])])

\* [element.get_text() for element in self._find_all_elements(name, root)]
TextsOf(self, name, root) ==
    IF NoTree(self, root) THEN _find_all_elements(self, name, root)
    ELSE Texts(_find_all_elements(self, name, root))

\* _find_k_urheber
_find_k_urheber(self, root) == TextsOf(self, "k_urheber", root)

\* _find_p_urheber
_find_p_urheber(self, root) == TextsOf(self, "p_urheber", root)

DokumentIn(self, element) ==
    IF IsRaise(element) THEN element
    ELSE
    DictOf(<< <<"wahlperiode", Text(self, "wahlperiode", element)>>,
              <<"dokumentart", Text(self, "dokumentart", element)>>,
              <<"drs_typ", _find_drs_typ(self, element)>>,
              <<"nr", Text(self, "nr", element)>>,
              <<"datum", Date(self, "datum", element)>>,
              <<"titel", _find_titel(self, element)>>,
              <<"k_urheber", _find_k_urheber(self, element)>>,
              <<"p_urheber", _find_p_urheber(self, element)>>,
              <<"text", Text(self, "text", element)>> >>)

\* find_dokument
find_dokument(self) == DokumentIn(self, _find_element(self, "dokument", None))

----------------------------------------------------------------------------
(* Input trees: a well-formed tree of the schema with at most one defect    *)
(* (an element deleted, an element replaced by its children, a date text    *)
(* replaced by a malformed one)                                             *)

Idx(i) == Digits[i + 1]

GoodDate == <<"0", "1", ".", "0", "1", ".", "1", "9", "9", "0">>

BadDates == { <<"3", "1", ".", "0", "4", ".", "1", "9", "9", "0">> }

DateFields ==
    { "historie_von", "historie_bis", "geburtsdatum", "sterbedatum",
      "mdbins_von", "mdbins_bis", "fktins_von", "fktins_bis",
      "mdbwp_von", "mdbwp_bis", "datum" }

NameTag(i) ==
    Node("name",
         << Leaf("nachname", <<"n", Idx(i)>>), Leaf("vorname", <<"v">>),
            Leaf("ortszusatz", <<>>), Leaf("adel", <<>>), Leaf("praefix", <<>>),
            Leaf("anrede_titel", <<"D", "r">>), Leaf("akad_titel", <<>>),
            Leaf("historie_von", GoodDate), Leaf("historie_bis", <<>>) >>)

BioTag ==
    Node("biografische_angaben",
         << Leaf("geburtsdatum", GoodDate), Leaf("geburtsort", <<"o">>),
            Leaf("geburtsland", <<>>), Leaf("sterbedatum", <<>>),
            Leaf("geschlecht", <<"w">>),
            Leaf("familienstand", <<"a", ",", " ", "b">>),
            Leaf("religion", <<>>), Leaf("beruf", <<"c">>),
            Leaf("partei_kurz", <<"p">>), Leaf("vita_kurz", <<>>),
            Leaf("veroeffentlichungspflichtiges", <<>>) >>)

InstTag(i) ==
    Node("institution",
         << Leaf("insart_lang", <<"F">>), Leaf("ins_lang", <<"s", Idx(i)>>),
            Leaf("mdbins_von", GoodDate), Leaf("mdbins_bis", <<>>),
            Leaf("fkt_lang", <<>>), Leaf("fktins_von", <<>>),
            Leaf("fktins_bis", <<>>) >>)

TermTag(i, n) ==
    Node("wahlperiode",
         << Leaf("wp", <<"w", Idx(i)>>), Leaf("mdbwp_von", GoodDate),
            Leaf("mdbwp_bis", GoodDate), Leaf("wkr_nummer", <<"7">>),
            Leaf("wkr_name", <<"k">>), Leaf("wkr_land", <<"l">>),
            Leaf("liste", <<>>), Leaf("mandatsart", <<"m">>),
            Node("institutionen", [j \in 1..n |-> InstTag(j)]) >>)

\* the i-th member of a roster; withId is false for a member without id
MdbTag(i, n, withId) ==
    Node("mdb",
         (IF withId THEN <<Leaf("id", <<"i", Idx(i)>>)>> ELSE <<>>)
         \o << Node("namen", [j \in 1..n |-> NameTag(j)]),
               BioTag,
               Node("wahlperioden", [j \in 1..n |-> TermTag(j, n)]) >>)

\* a member roster of m members, every list of it of length n, the noid-th
\* member without id (noid = 0: every member has its id)
StammTree(m, n, noid) ==
    Node("[document]",
         << Node("document",
                 <<Leaf("version", <<"1">>)>>
                 \o [i \in 1..m |-> MdbTag(i, n, i # noid)]) >>)

\* a printed matter with n corporate and n personal authors
DokTree(n) ==
    Node("[document]",
         << Node("dokument",
                 << Leaf("wahlperiode", <<"1", "8">>),
                    Leaf("dokumentart", <<"d">>), Leaf("drs_typ", <<"t">>),
                    Leaf("nr", <<"4", "2">>), Leaf("datum", GoodDate),
                    Leaf("titel", <<"T">>) >>
                 \o [i \in 1..n |-> Leaf("k_urheber", <<"k", Idx(i)>>)]
                 \o [i \in 1..n |-> Leaf("p_urheber", <<"p", Idx(i)>>)]
                 \o << Leaf("text", <<"x">>) >>) >>)

\* the places of the elements below el: sequences of child indices
RECURSIVE Paths(_)
Paths(el) ==
    UNION { {<<i>>} \cup { <<i>> \o p : p \in Paths(el.children[i]) } :
            i \in 1..Len(el.children) }

RECURSIVE At(_, _)
At(el, p) == IF p = <<>> THEN el ELSE At(el.children[p[1]], Tail(p))

\* el with the element at p replaced by the elements repl
RECURSIVE Splice(_, _, _)
Splice(el, p, repl) ==
    IF Len(p) = 1
    THEN [el EXCEPT !.children =
             SubSeq(el.children, 1, p[1] - 1) \o repl
             \o SubSeq(el.children, p[1] + 1, Len(el.children))]
    ELSE [el EXCEPT !.children[p[1]] = Splice(el.children[p[1]], Tail(p), repl)]

NoEdit == [kind |-> "none", path |-> <<>>, text |-> <<>>]

\* the defects a tree can be given: one element deleted, one element replaced
\* by its children, one date text replaced by a malformed one
Edits(tree) ==
    {NoEdit}
    \cup { [kind |-> "delete", path |-> p, text |-> <<>>] : p \in Paths(tree) }
    \cup { [kind |-> "unwrap", path |-> p, text |-> <<>>] :
           p \in { q \in Paths(tree) : At(tree, q).children # <<>> } }
    \cup { [kind |-> "text", path |-> p, text |-> t] :
           p \in { q \in Paths(tree) : At(tree, q).name \in DateFields },
           t \in BadDates }

RetextAt(el, t) == <<[el EXCEPT !.text = t]>>

Edit(tree, e) ==
    IF e.kind = "delete" THEN Splice(tree, e.path, <<>>)
    ELSE IF e.kind = "unwrap" THEN Splice(tree, e.path, At(tree, e.path).children)
    ELSE IF e.kind = "text" THEN Splice(tree, e.path, RetextAt(At(tree, e.path), e.text))
    ELSE tree

\* the defects of a roster: at the document element, at version or in one of
\* the first two members
RosterEdits(tree) ==
    { e \in Edits(tree) : Len(e.path) < 2 \/ e.path[2] <= 3 }

\* the XML files handed to the parser: rosters of up to maxMdb members, the
\* last member with or without its id, with at most one defect
StammFiles(maxMdb) ==
    UNION { { [schema |-> "stammdaten", mdbs |-> c[1], len |-> c[2],
               noid |-> c[3], edit |-> e] :
              e \in RosterEdits(StammTree(c[1], c[2], c[3])) } :
            c \in { d \in (0..maxMdb) \X (0..MaxList) \X (0..maxMdb) :
                    d[3] \in {0, d[1]} } }

DokFiles ==
    UNION { { [schema |-> "drucksache", mdbs |-> 0, len |-> n, noid |-> 0,
               edit |-> e] : e \in Edits(DokTree(n)) } : n \in 0..MaxList }

\* a file whose read() raises OSError
Unreadable ==
    [schema |-> "unreadable", mdbs |-> 0, len |-> 0, noid |-> 0, edit |-> NoEdit]

\* bs4.BeautifulSoup(xml, "lxml"): the tree of the file, or the OSError of
\* reading it
BeautifulSoup(xml) ==
    IF xml.schema = "unreadable" THEN Raise("OSError")
    ELSE IF xml.schema = "stammdaten"
    THEN Edit(StammTree(xml.mdbs, xml.len, xml.noid), xml.edit)
    ELSE Edit(DokTree(xml.len), xml.edit)

\* the assignment of __init__: self.soup is set unless the parse raised
SoupOf(parsed) == IF IsRaise(parsed) THEN NoSoup ELSE parsed

\* MBTXML.__init__(pid, xml): an OSError of the parse is logged and __init__
\* returns normally, with self.soup never set
MBTXML(xml) == [soup |-> SoupOf(BeautifulSoup(xml))]

----------------------------------------------------------------------------
(* The parser object and its callers *)

\* the parser the callers hold: soup is its attribute, NoSoup when unset
Self == [soup |-> soup]

NotCalled == [tag |-> "pending"]

NoCall == [op |-> "none", arg |-> None]

\* the elements of that name a caller can hand to a builder as its root
RootsIn(es) == { es[i] : i \in 1..Len(es) }

Roots(name) == IF HasSoup(Self) THEN RootsIn(find_all(soup, name)) ELSE {}

\* a caller runs one builder on a root and keeps what it returns or raises
Called(op, arg, result) ==
    /\ call = NoCall
    /\ ret = NotCalled
    /\ call' = [op |-> op, arg |-> arg]
    /\ ret' = result
    /\ UNCHANGED <<soup, resultset, pos, status, yielded>>

CallFindVersion == Called("find_version", None, find_version(Self))

CallFindId == \E root \in Roots("mdb") : Called("_find_id", root, _find_id(Self, root))

CallFindName ==
    \E root \in Roots("name") : Called("_find_name", root, _find_name(Self, root))

CallFindNamen ==
    \E root \in Roots("mdb") : Called("_find_namen", root, _find_namen(Self, root))

CallFindBiografischeAngaben ==
    \E root \in Roots("mdb") :
        Called("_find_biografische_angaben", root,
               _find_biografische_angaben(Self, root))

CallFindInstitution ==
    \E root \in Roots("institution") :
        Called("_find_institution", root, _find_institution(Self, root))

CallFindInstitutionen ==
    \E root \in Roots("wahlperiode") :
        Called("_find_institutionen", root, _find_institutionen(Self, root))

CallFindWahlperiode ==
    \E root \in Roots("wahlperiode") :
        Called("_find_wahlperiode", root, _find_wahlperiode(Self, root))

CallFindWahlperioden ==
    \E root \in Roots("mdb") :
        Called("_find_wahlperioden", root, _find_wahlperioden(Self, root))

\* the root find_dokument hands to the builders of its fields; on a parser
\* without tree the builders are called with their default root
DokumentRoot ==
    IF HasSoup(Self) THEN _find_element(Self, "dokument", None) ELSE None

CallFindDrsTyp == Called("_find_drs_typ", DokumentRoot, _find_drs_typ(Self, DokumentRoot))

CallFindTitel == Called("_find_titel", DokumentRoot, _find_titel(Self, DokumentRoot))

CallFindKUrheber ==
    Called("_find_k_urheber", DokumentRoot, _find_k_urheber(Self, DokumentRoot))

CallFindPUrheber ==
    Called("_find_p_urheber", DokumentRoot, _find_p_urheber(Self, DokumentRoot))

CallFindDokument == Called("find_dokument", None, find_dokument(Self))

FirstOf(found, self) ==
    IF found = <<>> THEN Raise("StopIteration") ELSE mdb(self, found[1])

\* next(self.find_mdb()): the record of the first mdb element
CallNextFindMdb ==
    Called("next(find_mdb())", None,
           IF NoTree(Self, None) THEN _find_all_elements(Self, "mdb", None)
           ELSE FirstOf(_find_all_elements(Self, "mdb", None), Self))

InitBuilders ==
    /\ \E xml \in StammFiles(1) \cup DokFiles \cup {Unreadable} :
           soup = MBTXML(xml).soup
    /\ resultset = <<>>
    /\ pos = 0
    /\ status = "created"
    /\ yielded = <<>>
    /\ call = NoCall
    /\ ret = NotCalled

NextBuilders ==
    \/ CallFindVersion
    \/ CallFindId
    \/ CallFindName
    \/ CallFindNamen
    \/ CallFindBiografischeAngaben
    \/ CallFindInstitution
    \/ CallFindInstitutionen
    \/ CallFindWahlperiode
    \/ CallFindWahlperioden
    \/ CallFindDrsTyp
    \/ CallFindTitel
    \/ CallFindKUrheber
    \/ CallFindPUrheber
    \/ CallFindDokument
    \/ CallNextFindMdb

SpecBuilders == InitBuilders /\ [][NextBuilders]_vars

----------------------------------------------------------------------------
(* find_mdb: the generator over the mdb elements of the tree.  status is    *)
(* "created" before the first next(), "suspended" at a yield, "raised"      *)
(* once an exception left the generator, "exhausted" once it returned.      *)
(* resultset is the list the for loop runs over, made when the generator    *)
(* starts; pos counts the elements the loop has taken.                      *)

Live == status \in {"created", "suspended"}

\* the list of the for loop: self._find_all_elements("mdb"), made once
Loop ==
    IF status = "created" THEN _find_all_elements(Self, "mdb", None) ELSE resultset

\* the lookup of the loop's list raises: the generator starts on a parser
\* without tree
LoopFails == status = "created" /\ NoTree(Self, None)

\* a loop that passes over an element whose builder failed and goes on
ResumeSkipping(r) ==
    /\ ret' = r
    /\ status' = "suspended"
    /\ yielded' = IF IsRaise(r) THEN yielded ELSE Append(yielded, r)

\* the generator goes on from building the record r of the element taken:
\* r is yielded, or the builder's exception leaves the generator and ends it
Resume(r) ==
    /\ ret' = r
    /\ status' = IF IsRaise(r) THEN "raised" ELSE "suspended"
    /\ yielded' = IF IsRaise(r) THEN yielded ELSE Append(yielded, r)

\* next(): the lookup of the loop's list raises and the exception leaves
\* the generator before it has taken an element
GenRaise ==
    /\ Live
    /\ LoopFails
    /\ status' = "raised"
    /\ ret' = Loop
    /\ UNCHANGED <<soup, resultset, pos, yielded, call>>

\* next(): the loop takes the next element and builds its record
GenNext ==
    /\ Live
    /\ ~LoopFails
    /\ pos < Len(Loop)
    /\ Resume(mdb(Self, Loop[pos + 1]))
    /\ resultset' = Loop
    /\ pos' = pos + 1
    /\ UNCHANGED <<soup, call>>

\* next(): no element is left, the generator returns
GenReturn ==
    /\ Live
    /\ ~LoopFails
    /\ pos = Len(Loop)
    /\ status' = "exhausted"
    /\ resultset' = Loop
    /\ ret' = Raise("StopIteration")
    /\ UNCHANGED <<soup, pos, yielded, call>>

\* a generator that starts its loop again when asked past its end
GenRestarted ==
    /\ ~Live
    /\ status' = "created"
    /\ pos' = 0
    /\ ret' = NotCalled
    /\ UNCHANGED <<soup, resultset, yielded, call>>

\* next() on a generator that has ended
GenEnded ==
    /\ ~Live
    /\ ret' = Raise("StopIteration")
    /\ UNCHANGED <<soup, resultset, pos, status, yielded, call>>

Init ==
    /\ \E xml \in StammFiles(MaxMdb) \cup {Unreadable} : soup = MBTXML(xml).soup
    /\ resultset = <<>>
    /\ pos = 0
    /\ status = "created"
    /\ yielded = <<>>
    /\ call = [op |-> "find_mdb", arg |-> None]
    /\ ret = NotCalled

Next == GenRaise \/ GenNext \/ GenReturn \/ GenEnded

Spec == Init /\ [][Next]_vars

----------------------------------------------------------------------------
(* Texts of the list-valued fields of a biography: up to MaxTextLen          *)
(* characters out of a letter, the comma and the blank                       *)

ListTexts == UNION { [1..n -> {"a", ",", " "}] : n \in 0..MaxTextLen }

\* a roster of one member whose biography has the text t in the field f
BioFile(f, t) ==
    [schema |-> "stammdaten", mdbs |-> 1, len |-> 0, noid |-> 0,
     edit |-> [kind |-> "text",
               path |-> CHOOSE p \in Paths(StammTree(1, 0, 0)) :
                            At(StammTree(1, 0, 0), p).name = f,
               text |-> t]]

InitText ==
    /\ \E f \in {"familienstand", "beruf"}, t \in ListTexts :
           soup = MBTXML(BioFile(f, t)).soup
    /\ resultset = <<>>
    /\ pos = 0
    /\ status = "created"
    /\ yielded = <<>>
    /\ call = NoCall
    /\ ret = NotCalled

NextText == CallFindBiografischeAngaben

SpecText == InitText /\ [][NextText]_vars

----------------------------------------------------------------------------
(* Date texts the normaliser is run on: up to MaxWords words joined by "." *)

DateWords ==
    { <<>>, <<"0", "1">>, <<"2", "9">>, <<"3", "1">>, <<"0", "2">>,
      <<"0", "4">>, <<"1", "9", "9", "0">>, <<"2", "0", "0", "0">>,
      <<"x", "x">>, <<"\r", "0", "1">> }

RECURSIVE Join(_, _)
Join(ws, sep) ==
    IF Len(ws) = 0 THEN <<>>
    ELSE IF Len(ws) = 1 THEN ws[1]
    ELSE ws[1] \o <<sep>> \o Join(Tail(ws), sep)

DateTexts ==
    { Join(ws, ".") : ws \in UNION { [1..n -> DateWords] : n \in 0..MaxWords } }

EmptySoup == Node("[document]", <<>>)

InitDate ==
    /\ soup = EmptySoup
    /\ resultset = <<>>
    /\ pos = 0
    /\ status = "created"
    /\ yielded = <<>>
    /\ \E d \in DateTexts : call = [op |-> "_get_datetime", arg |-> d]
    /\ ret = NotCalled

\* a caller runs _get_datetime on the date text
CallGetDatetime ==
    /\ call.op = "_get_datetime"
    /\ ret = NotCalled
    /\ ret' = _get_datetime(call.arg)
    /\ UNCHANGED <<soup, resultset, pos, status, yielded, call>>

NextDate == CallGetDatetime

SpecDate == InitDate /\ [][NextDate]_vars

----------------------------------------------------------------------------
(* What spec.md says of date texts, stated apart from _get_datetime          *)

DotsOf(t) == { i \in 1..Len(t) : t[i] = "." }

\* the three components of a text with two dots
DayPart(t) == SubSeq(t, 1, IndexOf(t, ".") - 1)

RestPart(t) == SubSeq(t, IndexOf(t, ".") + 1, Len(t))

MonthPart(t) == DayPart(RestPart(t))

YearPart(t) == RestPart(RestPart(t))

AllDigits(w) == w # <<>> /\ \A i \in 1..Len(w) : IsDigit(w[i])

CalendarDays(y, m) ==
    <<31, 28, 31, 30, 31, 30, 31, 31, 30, 31, 30, 31>>[m]
    + (IF m = 2 /\ (y % 400 = 0 \/ (y % 4 = 0 /\ y % 100 # 0)) THEN 1 ELSE 0)

IsCalendarDate(y, m, d) ==
    /\ y \in 1..9999
    /\ m \in 1..12
    /\ d >= 1
    /\ d <= CalendarDays(y, m)

\* day.month.year: three numeric components that denote a calendar date
Parseable(t) ==
    /\ Cardinality(DotsOf(t)) = 2
    /\ AllDigits(DayPart(t))
    /\ AllDigits(MonthPart(t))
    /\ AllDigits(YearPart(t))
    /\ IsCalendarDate(DecimalValue(YearPart(t)), DecimalValue(MonthPart(t)),
                      DecimalValue(DayPart(t)))

\* DD.MM.YYYY to the letter: two digits, two digits, four digits
ValidDDMMYYYY(t) == Parseable(t) /\ Len(t) = 10 /\ DotsOf(t) = {3, 6}

DateCalled == call.op = "_get_datetime" /\ ret # NotCalled

\* C7 (as spec.md states it): a date text that is present and not parseable
\* as DD.MM.YYYY (a non-numeric token, an invalid calendar date, a number of
\* dot-separated components other than three) makes _get_datetime fail; it
\* never returns a date or the original text for it.
C7_MalformedDateFails ==
    (DateCalled /\ call.arg # <<>> /\ ~Parseable(call.arg)) => IsRaise(ret)

\* C8: for a valid DD.MM.YYYY text _get_datetime returns a date whose year,
\* month and day are the parsed components and which has no other component
\* set; for the empty text it returns the empty text.
C8_ValidDateParsed ==
    /\ (DateCalled /\ ValidDDMMYYYY(call.arg)) =>
           ret = [tag |-> "datetime",
                  year |-> DecimalValue(YearPart(call.arg)),
                  month |-> DecimalValue(MonthPart(call.arg)),
                  day |-> DecimalValue(DayPart(call.arg)),
                  hour |-> 0, minute |-> 0, second |-> 0, microsecond |-> 0]
    /\ (DateCalled /\ call.arg = <<>>) => ret = Str(<<>>)

\* the 29th of February of a leap year has been parsed
C8_Witness ==
    /\ DateCalled
    /\ call.arg = <<"2", "9", ".", "0", "2", ".", "2", "0", "0", "0">>
    /\ ret.tag = "datetime"
    /\ ret.day = 29

----------------------------------------------------------------------------
(* What spec.md says of the list-valued texts of a biography *)

Trimmed(w) == w = <<>> \/ (~IsSpace(w[1]) /\ ~IsSpace(w[Len(w)]))

BioCalled == call.op = "_find_biografische_angaben" /\ ret # NotCalled

AllTrimmed(list) == \A i \in 1..Len(list.val) : Trimmed(list.val[i].val)

\* C9 (as spec.md states it): the marital-status and the profession list of
\* a biography are the comma-separated substrings of the field's text, each
\* entry trimmed of the whitespace around it.
C9_ListEntriesTrimmed ==
    (BioCalled /\ ret.tag = "dict" /\ DOMAIN ret.val # {}) =>
        /\ AllTrimmed(ret.val.familienstand)
        /\ AllTrimmed(ret.val.beruf)

----------------------------------------------------------------------------
(* What spec.md says of the builders, stated on the tree alone *)

NameFields ==
    {"nachname", "vorname", "ortszusatz", "adel", "praefix", "anrede_titel",
     "akad_titel", "historie_von", "historie_bis"}

BioFields ==
    {"geburtsdatum", "geburtsort", "geburtsland", "sterbedatum", "geschlecht",
     "familienstand", "religion", "beruf", "partei_kurz", "vita_kurz",
     "veroeffentlichungspflichtiges"}

InstitutionFields ==
    {"insart_lang", "ins_lang", "mdbins_von", "mdbins_bis", "fkt_lang",
     "fktins_von", "fktins_bis"}

WahlperiodeFields ==
    {"wp", "mdbwp_von", "mdbwp_bis", "wkr_nummer", "wkr_name", "wkr_land",
     "liste", "mandatsart"}

DokumentFields == {"wahlperiode", "dokumentart", "nr", "datum", "text"}

\* an element of this name occurs below root
RECURSIVE Has(_, _)
Has(root, name) ==
    \E i \in 1..Len(root.children) :
        root.children[i].name = name \/ Has(root.children[i], name)

Missing(root, fields) == \E f \in fields : ~Has(root, f)

\* the first element of a name below root; only used where there is one
TheOne(root, name) == find_all(root, name)[1]

\* spec.md speaks of the trees the builders read: the parser holds one
Parsed == HasSoup(Self)

BuilderCalled(op) == Parsed /\ call.op = op /\ ret # NotCalled

\* where a builder called with this root looks its fields up
Scope(root) == IF root.tag = "None" THEN soup ELSE root

\* where find_dokument looks the fields of the document up
DokumentScope == IF Has(soup, "dokument") THEN TheOne(soup, "dokument") ELSE soup

EmptyList(v) == v.tag = "list" /\ v.val = <<>>

EmptyStr(v) == v.tag = "str" /\ v.val = <<>>

EmptyDict(v) == v.tag = "dict" /\ DOMAIN v.val = {}

\* C1: a builder whose root lacks the element of an exactly-one field fails
\* and returns no record: the name, biography (its container present),
\* institution, term-of-office, member (id) and document builders, and the
\* version and id readers.
C1_RequiredFieldMissingFails ==
    /\ (BuilderCalled("_find_name") /\ Missing(call.arg, NameFields))
           => IsRaise(ret)
    /\ (BuilderCalled("_find_institution") /\ Missing(call.arg, InstitutionFields))
           => IsRaise(ret)
    /\ (BuilderCalled("_find_wahlperiode") /\ Missing(call.arg, WahlperiodeFields))
           => IsRaise(ret)
    /\ (/\ BuilderCalled("_find_biografische_angaben")
        /\ Has(call.arg, "biografische_angaben")
        /\ Missing(TheOne(call.arg, "biografische_angaben"), BioFields))
           => IsRaise(ret)
    /\ (/\ BuilderCalled("next(find_mdb())")
        /\ Has(soup, "mdb")
        /\ ~Has(TheOne(soup, "mdb"), "id"))
           => (IsRaise(ret) /\ ret.exc # "StopIteration")
    /\ (BuilderCalled("find_dokument") /\ Missing(DokumentScope, DokumentFields))
           => IsRaise(ret)
    /\ (BuilderCalled("_find_id") /\ ~Has(call.arg, "id")) => IsRaise(ret)
    /\ (BuilderCalled("find_version") /\ ~Has(soup, "version")) => IsRaise(ret)

\* scenario C: a printed matter without nr has failed
C1_Witness ==
    /\ BuilderCalled("find_dokument")
    /\ Has(soup, "dokument")
    /\ ~Has(soup, "nr")
    /\ DokumentFields \ {"nr"} = { f \in DokumentFields : Has(DokumentScope, f) }
    /\ IsRaise(ret)

\* C3 (as spec.md states it): when the tree has no dokument element,
\* find_dokument fails and returns no Document, whatever else the tree holds.
C3_NoDokumentFails ==
    (BuilderCalled("find_dokument") /\ ~Has(soup, "dokument")) => IsRaise(ret)

\* C4: with the container of a zero-or-many field absent (namen,
\* wahlperioden, institutionen), or with no k_urheber / p_urheber below the
\* document, the builder returns the empty sequence and does not fail; the
\* record built around it carries the empty sequence.
C4_AbsentContainerEmptyList ==
    /\ (BuilderCalled("_find_namen") /\ ~Has(call.arg, "namen"))
           => EmptyList(ret)
    /\ (BuilderCalled("_find_wahlperioden") /\ ~Has(call.arg, "wahlperioden"))
           => EmptyList(ret)
    /\ (BuilderCalled("_find_institutionen") /\ ~Has(call.arg, "institutionen"))
           => EmptyList(ret)
    /\ (BuilderCalled("_find_k_urheber") /\ ~Has(Scope(call.arg), "k_urheber"))
           => EmptyList(ret)
    /\ (BuilderCalled("_find_p_urheber") /\ ~Has(Scope(call.arg), "p_urheber"))
           => EmptyList(ret)
    /\ (BuilderCalled("_find_wahlperiode") /\ ret.tag = "dict"
        /\ ~Has(call.arg, "institutionen"))
           => EmptyList(ret.val.institutionen)
    /\ (BuilderCalled("next(find_mdb())") /\ ret.tag = "dict"
        /\ ~Has(TheOne(soup, "mdb"), "namen"))
           => EmptyList(ret.val.namen)
    /\ (BuilderCalled("next(find_mdb())") /\ ret.tag = "dict"
        /\ ~Has(TheOne(soup, "mdb"), "wahlperioden"))
           => EmptyList(ret.val.wahlperioden)
    /\ (BuilderCalled("find_dokument") /\ ret.tag = "dict"
        /\ ~Has(DokumentScope, "k_urheber"))
           => EmptyList(ret.val.k_urheber)
    /\ (BuilderCalled("find_dokument") /\ ret.tag = "dict"
        /\ ~Has(DokumentScope, "p_urheber"))
           => EmptyList(ret.val.p_urheber)

\* a member has terms of office but no wahlperioden container around them,
\* and the builder of its terms has returned the empty sequence
C4_Witness ==
    /\ BuilderCalled("_find_wahlperioden")
    /\ ~Has(call.arg, "wahlperioden")
    /\ Has(call.arg, "wahlperiode")
    /\ EmptyList(ret)

\* C5: an absent zero-or-one element gives the default and no failure: the
\* empty string for drs_typ and for titel, the empty Biography for a member
\* without biografische_angaben.
C5_AbsentOptionalDefault ==
    /\ (BuilderCalled("_find_drs_typ") /\ ~Has(Scope(call.arg), "drs_typ"))
           => EmptyStr(ret)
    /\ (BuilderCalled("_find_titel") /\ ~Has(Scope(call.arg), "titel"))
           => EmptyStr(ret)
    /\ (BuilderCalled("_find_biografische_angaben")
        /\ ~Has(call.arg, "biografische_angaben"))
           => EmptyDict(ret)
    /\ (BuilderCalled("find_dokument") /\ ~Missing(DokumentScope, DokumentFields)
        /\ ~Has(DokumentScope, "drs_typ"))
           => (ret.tag = "dict" /\ EmptyStr(ret.val.drs_typ))
    /\ (BuilderCalled("find_dokument") /\ ~Missing(DokumentScope, DokumentFields)
        /\ ~Has(DokumentScope, "titel"))
           => (ret.tag = "dict" /\ EmptyStr(ret.val.titel))
    /\ (BuilderCalled("next(find_mdb())") /\ Has(soup, "mdb")
        /\ Has(TheOne(soup, "mdb"), "id")
        /\ ~Has(TheOne(soup, "mdb"), "biografische_angaben"))
           => (ret.tag = "dict" /\ EmptyDict(ret.val.biografische_angaben))

\* scenario C: a printed matter without titel has been built with titel ""
C5_Witness ==
    /\ BuilderCalled("find_dokument")
    /\ Has(soup, "dokument")
    /\ ~Has(soup, "titel")
    /\ ret.tag = "dict"
    /\ EmptyStr(ret.val.titel)
    /\ ~EmptyStr(ret.val.nr)

----------------------------------------------------------------------------
(* What spec.md says of the member stream, stated on the tree *)

\* the top-level member elements e1, e2, ... in document order
Elems == find_all(soup, "mdb")

TextOfField(e, f) == Str(get_text(find(e, f)))

\* the elements of a zero-or-many field of e: those inside its container
Inside(e, container, name) ==
    IF Has(e, container) THEN find_all(TheOne(e, container), name) ELSE <<>>

\* the state of the stream over the member elements es
StreamOver(es) ==
    /\ status = "created" => (pos = 0 /\ yielded = <<>>)
    /\ status \in {"suspended", "exhausted"} => Len(yielded) = pos
    /\ status = "suspended" =>
           (pos >= 1 /\ ret = yielded[pos] /\ ret = mdb(Self, es[pos]))
    /\ status = "exhausted" => pos = Len(es)
    /\ status = "raised" =>
           /\ pos >= 1
           /\ Len(yielded) = pos - 1
           /\ IsRaise(ret)
           /\ IsRaise(mdb(Self, es[pos]))
    /\ \A i \in 1..Len(yielded) :
           /\ i <= Len(es)
           /\ yielded[i].tag = "dict"
           /\ Has(es[i], "id")
           /\ yielded[i].val.id = TextOfField(es[i], "id")

\* C2: with ek the first member element whose builder fails, the stream
\* yields the Members of e1 .. e(k-1) in order, then surfaces the failure at
\* position k: ek is not skipped and nothing is yielded after the failure;
\* without a failing element every element is taken before the stream ends.
C2_StreamFailsAtFirstMalformed == Parsed => StreamOver(Elems)

\* scenario E: two members, the second without id; the first has been
\* yielded and the stream has failed at the second
C2_Witness ==
    /\ Parsed
    /\ status = "raised"
    /\ pos = 2
    /\ Len(yielded) = 1
    /\ ~Has(Elems[2], "id")
    /\ ret = Raise("AttributeError")

\* the entries of a built list are those of the elements, one each, in order
OrderKept(list, elements, f) ==
    /\ list.tag = "list"
    /\ Len(list.val) = Len(elements)
    /\ \A k \in 1..Len(elements) : list.val[k].val[f] = TextOfField(elements[k], f)

TermsOrderKept(list, elements) ==
    /\ OrderKept(list, elements, "wp")
    /\ \A k \in 1..Len(elements) :
           OrderKept(list.val[k].val.institutionen,
                     Inside(elements[k], "institutionen", "institution"),
                     "ins_lang")

MemberOrderKept(r, e) ==
    /\ OrderKept(r.val.namen, Inside(e, "namen", "name"), "nachname")
    /\ TermsOrderKept(r.val.wahlperioden, Inside(e, "wahlperioden", "wahlperiode"))

\* C6: a Member built from a tree with N name elements inside namen has a
\* Names sequence of length N in the order of the elements; the same holds
\* of its terms of office inside wahlperioden and of the institutions inside
\* the institutionen of each term.
C6_ListsKeepCountAndOrder ==
    (Parsed /\ status = "suspended") => MemberOrderKept(ret, Elems[pos])

\* a member with two names, two terms and two institutions in its second
\* term has been yielded
C6_Witness ==
    /\ Parsed
    /\ status = "suspended"
    /\ Len(ret.val.namen.val) = 2
    /\ ret.val.namen.val[1].val.nachname = Str(<<"n", "1">>)
    /\ ret.val.namen.val[2].val.nachname = Str(<<"n", "2">>)
    /\ Len(ret.val.wahlperioden.val) = 2
    /\ ret.val.wahlperioden.val[2].val.wp = Str(<<"w", "2">>)
    /\ Len(ret.val.wahlperioden.val[2].val.institutionen.val) = 2
    /\ ret.val.wahlperioden.val[2].val.institutionen.val[2].val.ins_lang
           = Str(<<"s", "2">>)

\* a date field of e whose text _get_datetime rejects
DateFails(e, f) == Has(e, f) /\ IsRaise(_get_datetime(get_text(find(e, f))))

\* a nested entity whose own construction fails: a field of it is missing
\* or a date of it is rejected
EntityFails(e, fields) ==
    \/ Missing(e, fields)
    \/ \E f \in fields \cap DateFields : DateFails(e, f)

SomeFails(elements, fields) ==
    \E k \in 1..Len(elements) : EntityFails(elements[k], fields)

TermFails(e) ==
    \/ EntityFails(e, WahlperiodeFields)
    \/ SomeFails(Inside(e, "institutionen", "institution"), InstitutionFields)

SomeTermFails(elements) == \E k \in 1..Len(elements) : TermFails(elements[k])

BioFails(e) ==
    /\ Has(e, "biografische_angaben")
    /\ EntityFails(TheOne(e, "biografische_angaben"), BioFields)

\* a failure at some depth below the member element e
NestedFailure(e) ==
    \/ SomeFails(Inside(e, "namen", "name"), NameFields)
    \/ BioFails(e)
    \/ SomeTermFails(Inside(e, "wahlperioden", "wahlperiode"))

Aborted == status = "raised" /\ Len(yielded) = pos - 1 /\ IsRaise(ret)

\* C10: a failure at any depth below a member element (a missing
\* exactly-one field or a rejected date inside a Name, the Biography, a
\* TermOfOffice or an Institution) aborts the whole Member: the stream fails
\* at that element and yields no Member for it, neither with its lists cut
\* short nor with the failing entity left out.
C10_NestedFailureAbortsMember ==
    (Parsed /\ status \in {"suspended", "raised"} /\ NestedFailure(Elems[pos]))
        => Aborted

InstitutionFailsBelow(e) ==
    /\ ~SomeFails(Inside(e, "namen", "name"), NameFields)
    /\ ~BioFails(e)
    /\ SomeTermFails(Inside(e, "wahlperioden", "wahlperiode"))
    /\ ~SomeFails(Inside(e, "wahlperioden", "wahlperiode"), WahlperiodeFields)

\* the first member has its id and an institution that cannot be built, two
\* levels down; the stream has failed at it and has yielded nothing
C10_Witness ==
    /\ Parsed
    /\ status = "raised"
    /\ pos = 1
    /\ yielded = <<>>
    /\ Has(Elems[1], "id")
    /\ InstitutionFailsBelow(Elems[1])
    /\ Aborted

----------------------------------------------------------------------------
(* What spec.md says of a stream over well-formed members *)

\* the member element e can be built: it has its id and nothing below fails
WellFormed(e) == Has(e, "id") /\ ~NestedFailure(e)

\* the records yielded so far are those of the first elements of es, in order
YieldedInOrder(es) ==
    /\ Len(yielded) <= Len(es)
    /\ \A i \in 1..Len(yielded) :
           /\ yielded[i].tag = "dict"
           /\ Has(es[i], "id")
           /\ yielded[i].val.id = TextOfField(es[i], "id")

\* the stream has ended of itself: one record for each element of es
ExhaustedOver(es) ==
    /\ pos = Len(es)
    /\ Len(yielded) = Len(es)
    /\ ret = Raise("StopIteration")
    /\ \A i \in 1..Len(es) : yielded[i] = mdb(Self, es[i])

StreamEndsOver(es) ==
    /\ YieldedInOrder(es)
    /\ status = "exhausted" => ExhaustedOver(es)
    /\ status = "raised" => (pos \in 1..Len(es) /\ ~WellFormed(es[pos]))

\* what one call of next() does to the stream over es: it takes the next
\* element while one is left, ends the stream when none is left, and leaves
\* an ended stream as it is
StreamStep(es) ==
    /\ (Live /\ pos < Len(es)) =>
           (pos' = pos + 1 /\ status' \in {"suspended", "raised"})
    /\ (Live /\ pos = Len(es)) =>
           (status' = "exhausted" /\ pos' = pos /\ yielded' = yielded)
    /\ ~Live =>
           /\ status' = status
           /\ pos' = pos
           /\ yielded' = yielded
           /\ ret' = Raise("StopIteration")

\* C11: over a tree with N member elements, all well-formed, the stream
\* yields N records, the i-th built from the i-th element, and then ends:
\* every call takes the next element, the call after the N-th ends the
\* stream, and the stream fails only at an element that is not well-formed,
\* so with N = 0 it ends without a record and without failing; asked again
\* after its end it yields nothing more: it does not start again and the
\* records yielded never exceed N.
C11_StreamYieldsAllThenEnds ==
    /\ [](Parsed => StreamEndsOver(Elems))
    /\ [][Parsed => StreamStep(Elems)]_vars

\* a roster of two well-formed members has been yielded whole, the stream
\* has ended and has been asked once more
C11_Witness ==
    /\ Parsed
    /\ status = "exhausted"
    /\ Len(Elems) = 2
    /\ WellFormed(Elems[1])
    /\ WellFormed(Elems[2])
    /\ Len(yielded) = 2
    /\ yielded[1].val.id = Str(<<"i", "1">>)
    /\ yielded[2].val.id = Str(<<"i", "2">>)
    /\ ret = Raise("StopIteration")

=============================================================================
